---- MODULE Spec2Model ----
(***************************************************************************)
(* Model of weather_tracker.py: the backfill run of main() over the        *)
(* weather_data table, with the store client, the weather provider and the *)
(* clock as nondeterministic collaborators.                                *)
(***************************************************************************)
EXTENDS Integers, Sequences, FiniteSets, TLC

(* ------------------------------ bounds --------------------------------- *)

\* Calendar days are numbered 1..MaxDay; the run's "today" is one of 2..MaxDay.
MaxDay == 4

\* Number of consecutive executions of the script that are explored.
MaxRuns == 2

\* Longest hour list handed to the aggregator when it is evaluated on its own.
MaxObs == 2

Dates == 1..MaxDay

(* --------------------------- program constants ------------------------- *)

\* timedelta(days=1), in minutes
MinutesPerDay == 1440

\* utcoffset of pytz.timezone('Australia/Sydney') when attached with
\* datetime.replace(tzinfo=...): the zone's first entry, LMT+10:05
LMTOffset == 605

\* utcoffset of datetime.now(aest): AEST or AEDT
StandardOffset == 600
DaylightOffset == 660

Offsets == {StandardOffset, DaylightOffset}

\* Wall clock readings (minutes after midnight, utc offset) at which a run
\* starts: just after midnight in daylight-saving time, the last minutes of
\* a standard-time day, and noon in either.
StartTimes ==
    { [tod |-> 0, off |-> DaylightOffset],
      [tod |-> 720, off |-> DaylightOffset],
      [tod |-> 720, off |-> StandardOffset],
      [tod |-> 1435, off |-> StandardOffset] }

\* periods of analyze_weather_periods, in the dict's insertion order
PeriodOrder == <<"morning", "afternoon", "evening">>

Periods == {PeriodOrder[i] : i \in 1..Len(PeriodOrder)}

\* Mutant of PeriodHours: the morning range ends at 12 inclusive.
PeriodHours_NoonInMorning(p) ==
    CASE p = "morning" -> 6..12
      [] p = "afternoon" -> 12..17
      [] p = "evening" -> 18..23

\* range(6, 12), range(12, 18), range(18, 24)
PeriodHours(p) ==
    CASE p = "morning" -> 6..11
      [] p = "afternoon" -> 12..17
      [] p = "evening" -> 18..23

(* ------------------------------ datetimes ------------------------------ *)

\* An aware datetime: civil date, minutes after midnight, utc offset.
DateTime(d, t, o) == [date |-> d, tod |-> t, off |-> o]

\* Python's None for a datetime
NoDate == DateTime(0, 0, 0)

\* The instant of an aware datetime, in minutes (what <= compares).
Instant(dt) == dt.date * MinutesPerDay + dt.tod - dt.off

\* dt + timedelta(days=n): wall clock arithmetic, tzinfo kept
PlusDays(dt, n) == [dt EXCEPT !.date = @ + n]

\* a <= b on aware datetimes
Leq(a, b) == Instant(a) <= Instant(b)

(* --------------------------- weather payloads -------------------------- *)

\* One entry of day_data['hour']: hour of day, whether every field read by
\* calculate_period_averages is present, and the condition text.
Obs(h, ok, c) == [time |-> h, ok |-> ok, text |-> c]

\* response.json(): whether forecast.forecastday is present, the number of
\* forecast days, and the hour list of the first day.
Payload(f, n, hs) == [forecast |-> f, days |-> n, hour |-> hs]

\* get_historical_weather returning None
NoPayload == [forecast |-> FALSE, days |-> -1, hour |-> <<>>]

\* The payloads the weather provider may answer with.
Payloads ==
    { Payload(FALSE, 0, <<>>),
      Payload(TRUE, 0, <<>>),
      Payload(TRUE, 1, <<Obs(3, TRUE, "Clear")>>),
      Payload(TRUE, 1, <<Obs(7, TRUE, "Clear"), Obs(13, TRUE, "Cloudy")>>),
      Payload(TRUE, 1, <<Obs(7, TRUE, "Clear"), Obs(13, TRUE, "Clear"),
                         Obs(19, TRUE, "Rain")>>),
      Payload(TRUE, 1, <<Obs(7, TRUE, "Clear"), Obs(13, FALSE, "Clear")>>) }

\* Outcome of an aggregation step: a value, None, or an exception.
Value(v) == [status |-> "ok", value |-> v]
ReturnsNone == [status |-> "None", value |-> <<>>]
Raises == [status |-> "raise", value |-> <<>>]

RECURSIVE SelectHours(_, _)
\* the observations of hs whose hour lies in period p, in input order
SelectHours(hs, p) ==
    IF hs = <<>> THEN <<>>
    ELSE IF Head(hs).time \in PeriodHours(p)
         THEN <<Head(hs)>> \o SelectHours(Tail(hs), p)
         ELSE SelectHours(Tail(hs), p)

\* analyze_weather_periods: None, an exception (forecastday[0] of an empty
\* list), or the three periods' observations
AnalyzeWeatherPeriods(w) ==
    IF w = NoPayload \/ ~w.forecast THEN ReturnsNone
    ELSE IF w.days = 0 THEN Raises
    ELSE Value(<<SelectHours(w.hour, PeriodOrder[1]),
                 SelectHours(w.hour, PeriodOrder[2]),
                 SelectHours(w.hour, PeriodOrder[3])>>)

RECURSIVE NonEmptyPeriods(_, _)
NonEmptyPeriods(periods, i) ==
    IF i > Len(PeriodOrder) THEN <<>>
    ELSE IF periods[i] = <<>>
         THEN NonEmptyPeriods(periods, i + 1)
         ELSE <<PeriodOrder[i]>> \o NonEmptyPeriods(periods, i + 1)

\* Mutant of CalculatePeriodAverages: a period with an incomplete observation
\* is summarised all the same.
CalculatePeriodAverages_IgnoresMissingField(periods) ==
    Value(NonEmptyPeriods(periods, 1))

\* calculate_period_averages: the periods that get an entry, in order, or an
\* exception when an observation of a period lacks a field it reads.
CalculatePeriodAverages(periods) ==
    IF \E i \in 1..Len(periods) : \E j \in 1..Len(periods[i]) : ~periods[i][j].ok
    THEN Raises
    ELSE Value(NonEmptyPeriods(periods, 1))

\* Lines 292-309 of process_date after the fetch: the periods to store, or
\* the failure that makes process_date return False.
Summaries(w) ==
    LET periods == AnalyzeWeatherPeriods(w)
    IN  IF periods.status # "ok" THEN Raises
        ELSE CalculatePeriodAverages(periods.value)

(* ------------------------------- state --------------------------------- *)

VARIABLES
    store,             \* weather_data rows of the user: date -> period -> count
    pc,                \* position of the script
    run,               \* number of executions started so far
    now,               \* current_time_aest of the running execution
    tracker,           \* main's tracker is a WeatherTracker (sign-in succeeded)
    last_stored_date,  \* result of get_last_stored_date, NoDate for None
    start_date,        \* main's start_date
    current_date,      \* main's loop cursor
    period_averages,   \* periods still to be inserted by store_weather_data
    completed,         \* line 358 has been reached
    calls,             \* collaborator calls of this execution, in order
    failed,            \* dates for which process_date returned False
    summarised,        \* date -> the periods summarised for it, in order
    fetched,           \* date -> the payload the provider answered with
    insertBad,         \* dates with an insert that did not succeed
    store0,            \* the store when this execution started
    prev,              \* what the execution before this one left behind
    agg,               \* an evaluation of the period aggregator on its own
    clk                \* an evaluation of the loop test of main on its own

vars == <<store, pc, run, now, tracker, last_stored_date, start_date,
          current_date, period_averages, completed, calls, failed, summarised,
          fetched, insertBad, store0, prev, agg, clk>>

\* One collaborator call: sign_in, cursor, process_date, check, fetch,
\* insert, sign_out; date 0 and period "" when the call has none.
Call(op, d, p) == [op |-> op, date |-> d, period |-> p]

NoRows == [p \in Periods |-> 0]

\* Rows a date may hold when an execution starts: none, or one row per
\* period. The queries of the program only tell whether a date has a row.
InitialRows == {NoRows, [p \in Periods |-> 1]}

\* The store as executions without failures leave it: one row per period for
\* each of the first k dates.
StoreUpTo(k) == [d \in Dates |-> [p \in Periods |-> IF d <= k THEN 1 ELSE 0]]

HasRows(st, d) == \E p \in Periods : st[d][p] > 0

StoredDates(st) == {d \in Dates : HasRows(st, d)}

\* order('date', desc=True).limit(1)
MaxStoredDate(st) == CHOOSE d \in StoredDates(st) : \A e \in StoredDates(st) : e <= d

\* yesterday = current_time_aest - timedelta(days=1)
Yesterday == PlusDays(now, -1)

\* prev: the number of the previous execution, whether it reached line 358,
\* its yesterday, and the dates it failed on and left without a row.
NoPrev == [run |-> 0, completed |-> FALSE, yesterday |-> 0, failed |-> {}]

\* Everything but the store, before the script is run.
NotStarted ==
    /\ pc = "idle"
    /\ run = 0
    /\ now = NoDate
    /\ tracker = FALSE
    /\ last_stored_date = NoDate
    /\ start_date = NoDate
    /\ current_date = NoDate
    /\ period_averages = <<>>
    /\ completed = FALSE
    /\ calls = <<>>
    /\ failed = {}
    /\ summarised = [d \in Dates |-> <<>>]
    /\ fetched = [d \in Dates |-> NoPayload]
    /\ insertBad = {}
    /\ store0 = store
    /\ prev = NoPrev

\* The aggregator and the loop test are not being evaluated on their own.
NoAgg == [stage |-> "none"]
NoClk == [stage |-> "none"]

\* One execution, from any store with at most one row per date and period.
Init ==
    /\ store \in [Dates -> InitialRows]
    /\ NotStarted
    /\ agg = NoAgg
    /\ clk = NoClk

\* Consecutive executions, from a store without gaps.
InitRuns ==
    /\ store \in {StoreUpTo(k) : k \in 0..MaxDay}
    /\ NotStarted
    /\ agg = NoAgg
    /\ clk = NoClk

(* ------------------------------ operations ----------------------------- *)

\* The script is started: module level code up to the call of main(), and
\* lines 321-330 of main. A missing environment variable raises at line 73.
StartRun ==
    /\ pc \in {"idle", "exited"}
    /\ run < MaxRuns
    /\ \E today \in 2..MaxDay, t \in StartTimes, env \in BOOLEAN :
         /\ today >= now.date
         /\ t.off \in Offsets
         /\ now' = DateTime(today, t.tod, t.off)
         /\ pc' = IF env THEN "init" ELSE "exited"
    /\ run' = run + 1
    /\ prev' = IF pc = "idle" THEN NoPrev
               ELSE [run |-> run, completed |-> completed,
                     yesterday |-> Yesterday.date,
                     failed |-> {d \in failed : ~HasRows(store, d)}]
    /\ store0' = store
    /\ tracker' = FALSE
    /\ last_stored_date' = NoDate
    /\ start_date' = NoDate
    /\ current_date' = NoDate
    /\ period_averages' = <<>>
    /\ completed' = FALSE
    /\ calls' = <<>>
    /\ failed' = {}
    /\ summarised' = [d \in Dates |-> <<>>]
    /\ fetched' = [d \in Dates |-> NoPayload]
    /\ insertBad' = {}
    /\ UNCHANGED <<store, agg, clk>>

\* Mutant of SignIn: the exception of a failed sign-in is swallowed and main
\* goes on to read the cursor.
SignIn_Unchecked ==
    /\ pc = "init"
    /\ calls' = Append(calls, Call("sign_in", 0, ""))
    /\ \E ok \in BOOLEAN : tracker' = ok
    /\ pc' = "cursor"
    /\ UNCHANGED <<store, run, now, last_stored_date, start_date, current_date,
                   period_averages, completed, failed, summarised, fetched, insertBad,
                   store0, prev,
                   agg, clk>>

\* WeatherTracker.__init__ with _sign_in_supabase: the user id, or the
\* exception that main catches with tracker still None.
SignIn ==
    /\ pc = "init"
    /\ calls' = Append(calls, Call("sign_in", 0, ""))
    /\ \E ok \in BOOLEAN :
         /\ tracker' = ok
         /\ pc' = IF ok THEN "cursor" ELSE "finally"
    /\ UNCHANGED <<store, run, now, last_stored_date, start_date, current_date,
                   period_averages, completed, failed, summarised, fetched, insertBad,
                   store0, prev,
                   agg, clk>>

\* Mutant of GetLastStoredDate: a query that raises is taken as "nothing
\* stored since before the first day", so the range starts at the first day.
GetLastStoredDate_ErrorRestarts(ok) ==
    IF ok /\ StoredDates(store) # {}
    THEN DateTime(MaxStoredDate(store), 0, LMTOffset)
    ELSE IF ok THEN NoDate ELSE DateTime(0, 0, LMTOffset)

\* get_last_stored_date: the newest date with a row, None when there is no
\* row or the query raises.
GetLastStoredDate(ok) ==
    IF ok /\ StoredDates(store) # {}
    THEN DateTime(MaxStoredDate(store), 0, LMTOffset)
    ELSE NoDate

\* main, lines 336-347
DetermineRange ==
    /\ pc = "cursor"
    /\ calls' = Append(calls, Call("cursor", 0, ""))
    /\ \E ok \in BOOLEAN :
         LET last == GetLastStoredDate(ok)
             start == IF last = NoDate THEN Yesterday ELSE PlusDays(last, 1)
         IN  /\ last_stored_date' = last
             /\ start_date' = start
             /\ current_date' = start
    /\ pc' = "loop"
    /\ UNCHANGED <<store, run, now, tracker, period_averages, completed,
                   failed, summarised, fetched, insertBad, store0, prev,
                   agg, clk>>

\* Mutant of LoopTest: the loop runs while current_date < yesterday.
LoopTest_Strict ==
    /\ pc = "loop"
    /\ IF Instant(current_date) < Instant(Yesterday)
       THEN /\ calls' = Append(calls, Call("process_date", current_date.date, ""))
            /\ pc' = "check"
            /\ UNCHANGED completed
       ELSE /\ completed' = TRUE
            /\ pc' = "finally"
            /\ UNCHANGED calls
    /\ UNCHANGED <<store, run, now, tracker, last_stored_date, start_date,
                   current_date, period_averages, failed, summarised, fetched, insertBad,
                   store0, prev,
                   agg, clk>>

\* main, line 348: the loop test, and the call of process_date or line 358
LoopTest ==
    /\ pc = "loop"
    /\ IF Leq(current_date, Yesterday)
       THEN /\ calls' = Append(calls, Call("process_date", current_date.date, ""))
            /\ pc' = "check"
            /\ UNCHANGED completed
       ELSE /\ completed' = TRUE
            /\ pc' = "finally"
            /\ UNCHANGED calls
    /\ UNCHANGED <<store, run, now, tracker, last_stored_date, start_date,
                   current_date, period_averages, failed, summarised, fetched, insertBad,
                   store0, prev,
                   agg, clk>>

\* Mutant of CheckExistingData: a query that raises counts as "data exists".
CheckExistingData_FailClosed(d, ok) == ~ok \/ HasRows(store, d)

\* check_existing_data: whether the query returned a row; False when it raises
CheckExistingData(d, ok) == ok /\ HasRows(store, d)

\* Mutant of Return: a failed date ends the loop, as if its exception
\* reached the handler of line 360.
Return_AbortsOnFailure(b) ==
    /\ failed' = IF b THEN failed ELSE failed \cup {current_date.date}
    /\ current_date' = PlusDays(current_date, 1)
    /\ period_averages' = <<>>
    /\ pc' = IF b THEN "loop" ELSE "finally"

\* Mutant of Return: the cursor advances only past a date that succeeded.
Return_RetriesFailedDate(b) ==
    /\ failed' = IF b THEN failed ELSE failed \cup {current_date.date}
    /\ current_date' = IF b THEN PlusDays(current_date, 1) ELSE current_date
    /\ period_averages' = <<>>
    /\ pc' = "loop"

\* process_date returns b to main, which goes on to the next date (line 356)
Return(b) ==
    /\ failed' = IF b THEN failed ELSE failed \cup {current_date.date}
    /\ current_date' = PlusDays(current_date, 1)
    /\ period_averages' = <<>>
    /\ pc' = "loop"

\* process_date, lines 285-288
ProcessCheck ==
    /\ pc = "check"
    /\ calls' = Append(calls, Call("check", current_date.date, ""))
    /\ \E ok \in BOOLEAN :
         IF CheckExistingData(current_date.date, ok)
         THEN Return(TRUE)
         ELSE /\ pc' = "fetch"
              /\ UNCHANGED <<failed, current_date, period_averages>>
    /\ UNCHANGED <<store, run, now, tracker, last_stored_date, start_date,
                   completed, summarised, fetched, insertBad, store0, prev,
                   agg, clk>>

\* process_date, lines 290-312: fetch, analysis, averages and report
ProcessFetch ==
    /\ pc = "fetch"
    /\ calls' = Append(calls, Call("fetch", current_date.date, ""))
    /\ \E w \in Payloads \cup {NoPayload} :
         /\ fetched' = [fetched EXCEPT ![current_date.date] = w]
         /\ IF w = NoPayload \/ Summaries(w).status # "ok"
            THEN /\ Return(FALSE)
                 /\ UNCHANGED summarised
            ELSE /\ period_averages' = Summaries(w).value
                 /\ summarised' = [summarised EXCEPT
                                     ![current_date.date] = Summaries(w).value]
                 /\ pc' = "store"
                 /\ UNCHANGED <<failed, current_date>>
    /\ UNCHANGED <<store, run, now, tracker, last_stored_date, start_date,
                   completed, insertBad, store0, prev,
                   agg, clk>>

\* store_weather_data, lines 209-215: the second existence check; with
\* nothing to insert the loop body never runs
StoreCheck ==
    /\ pc = "store"
    /\ calls' = Append(calls, Call("check", current_date.date, ""))
    /\ \E ok \in BOOLEAN :
         IF CheckExistingData(current_date.date, ok) \/ period_averages = <<>>
         THEN Return(TRUE)
         ELSE /\ pc' = "insert"
              /\ UNCHANGED <<failed, current_date, period_averages>>
    /\ UNCHANGED <<store, run, now, tracker, last_stored_date, start_date,
                   completed, summarised, fetched, insertBad, store0, prev,
                   agg, clk>>

InsertOutcomes == {"ok", "error", "raise"}

\* The periods store_weather_data still tries after an insert with outcome
\* out: an exception leaves the loop through the handler of line 237.
RemainingAfter(rest, out) == IF out = "raise" THEN <<>> ELSE rest

\* store_weather_data, lines 215-240: one pass of the loop
StoreInsert ==
    /\ pc = "insert"
    /\ LET d == current_date.date
           p == Head(period_averages)
       IN  /\ calls' = Append(calls, Call("insert", d, p))
           /\ \E out \in InsertOutcomes :
                LET rest == RemainingAfter(Tail(period_averages), out)
                IN  /\ store' = IF out = "ok"
                                THEN [store EXCEPT ![d][p] = @ + 1]
                                ELSE store
                    /\ insertBad' = IF out = "ok" THEN insertBad
                                    ELSE insertBad \cup {d}
                    /\ IF rest = <<>>
                       THEN Return(TRUE)
                       ELSE /\ period_averages' = rest
                            /\ UNCHANGED <<pc, failed, current_date>>
    /\ UNCHANGED <<run, now, tracker, last_stored_date, start_date, completed,
                   summarised, fetched, store0, prev,
                   agg, clk>>

\* Mutant of Finally: the sign-out sits at the end of the try block, after
\* line 358, instead of in the finally clause.
Finally_AfterCompletionOnly ==
    /\ pc = "finally"
    /\ calls' = IF tracker /\ completed
                THEN Append(calls, Call("sign_out", 0, ""))
                ELSE calls
    /\ pc' = "exited"
    /\ UNCHANGED <<store, run, now, tracker, last_stored_date, start_date,
                   current_date, period_averages, completed, failed, summarised, fetched,
                   insertBad, store0, prev,
                   agg, clk>>

\* main, lines 362-366, with cleanup: sign-out when there is a tracker
Finally ==
    /\ pc = "finally"
    /\ calls' = IF tracker THEN Append(calls, Call("sign_out", 0, "")) ELSE calls
    /\ pc' = "exited"
    /\ UNCHANGED <<store, run, now, tracker, last_stored_date, start_date,
                   current_date, period_averages, completed, failed, summarised, fetched,
                   insertBad, store0, prev,
                   agg, clk>>

\* An exception that reaches the handler of line 360 from the body of main
\* after start-up.
UnexpectedException ==
    /\ pc \in {"cursor", "loop"}
    /\ pc' = "finally"
    /\ UNCHANGED <<store, run, now, tracker, last_stored_date, start_date,
                   current_date, period_averages, completed, calls, failed,
                   summarised, fetched, insertBad, store0, prev,
                   agg, clk>>

RunStep ==
    \/ SignIn
    \/ DetermineRange
    \/ LoopTest
    \/ ProcessCheck
    \/ ProcessFetch
    \/ StoreCheck
    \/ StoreInsert
    \/ Finally

\* The first execution of the script.
FirstRun == run = 0 /\ StartRun

Next == FirstRun \/ RunStep

\* One execution of the script.
Spec == Init /\ [][Next]_vars

\* A started execution keeps running: every call is blocking and returns.
FairSpec == Spec /\ WF_vars(RunStep)

NextExc == Next \/ UnexpectedException

\* One execution in which main's body may raise.
SpecExc == Init /\ [][NextExc]_vars

NextRuns == StartRun \/ RunStep

\* Up to MaxRuns executions, one after the other.
SpecRuns == InitRuns /\ [][NextRuns]_vars

(* --------------------------- reading the log -------------------------- *)

\* the dates of the calls of kind op, in call order
DatesOf(op) ==
    LET cs == SelectSeq(calls, LAMBDA c : c.op = op)
    IN  [i \in 1..Len(cs) |-> cs[i].date]

Range(seq) == {seq[i] : i \in 1..Len(seq)}

\* the dates a to b in ascending order, empty when a > b
Ascending(a, b) == [i \in 1..(IF b >= a THEN b - a + 1 ELSE 0) |-> a + i - 1]

\* number of calls of kind op for date d and period p
Count(op, d, p) == Cardinality({i \in 1..Len(calls) : calls[i] = Call(op, d, p)})

\* The dates from start_date on that the test of line 348 admits.
LoopDates ==
    {d \in Dates : d >= start_date.date
                   /\ Leq([start_date EXCEPT !.date = d], Yesterday)}

\* The execution signed in and has ended.
RunEnded == pc = "exited" /\ tracker

(* ------------------------------- claims ------------------------------- *)

\* C1: in an execution that follows a completed one with the same yesterday, no insert
\* is issued for a date that already had a row when it started, and a store
\* that had at most one row per date and period still has.
C1_SecondRunAddsNothing ==
    (prev.completed /\ prev.yesterday = Yesterday.date) =>
        /\ \A i \in 1..Len(calls) :
             calls[i].op = "insert" => ~HasRows(store0, calls[i].date)
        /\ (\A d \in Dates, p \in Periods : store0[d][p] <= 1)
             => (\A d \in Dates, p \in Periods : store[d][p] <= 1)

\* C2: a completed execution has called process_date for exactly the dates
\* D+1 .. yesterday when get_last_stored_date returned D, and for exactly
\* yesterday when it returned None.
C2_ProcessesCalendarRange ==
    (RunEnded /\ completed) =>
        DatesOf("process_date") =
            IF last_stored_date = NoDate
            THEN <<Yesterday.date>>
            ELSE Ascending(last_stored_date.date + 1, Yesterday.date)

\* A date of this execution whose fetch and aggregation gave summaries and
\* whose inserts all succeeded.
CleanDate(d) == summarised[d] # <<>> /\ d \notin insertBad

\* C3: when an execution has ended and some date of its range failed
\* (process_date returned False, or an insert did not succeed), every other
\* date of the range was processed, and each such date that had no row
\* before, got summaries and saw all its inserts succeed has a row for
\* every summarised period.
C3_FailureIsolation ==
    RunEnded =>
        \A d \in LoopDates : d \in failed \cup insertBad =>
            \A e \in LoopDates \ {d} :
                /\ e \in Range(DatesOf("process_date"))
                /\ (~HasRows(store0, e) /\ CleanDate(e)) =>
                       \A p \in Range(summarised[e]) : store[e][p] >= 1

\* C3 witness: an ended execution in which the fetch for a date failed and
\* the next date of the range was stored with all its periods
C3_Witness ==
    /\ RunEnded
    /\ \E d \in LoopDates \cap failed : \E e \in LoopDates :
         /\ d < e
         /\ ~HasRows(store, d)
         /\ ~HasRows(store0, e) /\ CleanDate(e)
         /\ \A p \in Periods : store[e][p] = 1

\* C4: an execution that ran to completion has called process_date for
\* every date on which the execution before it failed and for which it
\* stored nothing, also when a later date holds rows by now (the cursor
\* read succeeded and returned a date after the failed one).
C4_FailedDateRetried ==
    (RunEnded /\ completed /\ prev.completed) =>
        \A d \in prev.failed :
            d < last_stored_date.date => d \in Range(DatesOf("process_date"))

\* C5: an execution that has signed in reaches line 358 and ends, and has
\* then called process_date exactly once for every date of its range, in
\* ascending order, whatever the outcomes for the single dates were.
C5_Termination ==
    /\ [](RunEnded =>
            /\ completed
            /\ Range(DatesOf("process_date")) = LoopDates
            /\ Len(DatesOf("process_date")) = Cardinality(LoopDates))
    /\ ((pc = "cursor") ~> (pc = "exited" /\ completed))

\* C5 witness: a completed execution over several dates, one of which
\* failed and one of which had a failing insert
C5_Witness ==
    /\ RunEnded /\ completed
    /\ Cardinality(LoopDates) >= 2
    /\ failed # {}
    /\ insertBad # {}

\* C6: the table never holds more than one row for a date and period.
C6_AtMostOneRow == \A d \in Dates, p \in Periods : store[d][p] <= 1

\* C7: the calls made for dates are in ascending date order, so that all
\* calls for one date lie between those for earlier and those for later
\* dates, and each call of process_date is for a later date than every call
\* before it, so that no date is processed twice.
C7_AscendingOrder ==
    LET dated == SelectSeq(calls, LAMBDA c : c.date > 0)
    IN  \A i \in 1..(Len(dated) - 1) :
            /\ dated[i].date <= dated[i + 1].date
            /\ dated[i + 1].op = "process_date"
                 => dated[i].date < dated[i + 1].date

\* C7 witness: an ended execution that made checks, fetches and inserts for
\* two dates
C7_Witness ==
    /\ RunEnded
    /\ \E d, e \in Dates :
         /\ d < e
         /\ \A x \in {d, e} :
              /\ Count("check", x, "") = 2
              /\ Count("fetch", x, "") = 1
              /\ \E p \in Periods : Count("insert", x, p) = 1

\* the positions of the calls of kind op
Positions(op) == {i \in 1..Len(calls) : calls[i].op = op}

StoreQueries == {"cursor", "check", "insert"}

\* C8: sign-in is attempted at most once and before any store query; when
\* it succeeded, the ended execution has signed out exactly once, as its
\* last call; when it failed, there is no sign-out.
C8_SessionAcquireRelease ==
    /\ Cardinality(Positions("sign_in")) <= 1
    /\ \A i \in 1..Len(calls) :
         calls[i].op \in StoreQueries => \E j \in Positions("sign_in") : j < i
    /\ Cardinality(Positions("sign_out")) <= 1
    /\ Positions("sign_out") \subseteq {Len(calls)}
    /\ Positions("sign_out") # {} => tracker
    /\ RunEnded => Positions("sign_out") = {Len(calls)}

\* C8 witness: an execution that signed in, was left through an exception
\* after processing a date, and signed out
C8_Witness ==
    /\ RunEnded /\ ~completed
    /\ Positions("process_date") # {}
    /\ Positions("sign_out") = {Len(calls)}

\* C9: after a failed sign-in the execution makes no further call, leaves
\* the store as it was, and ends.
C9_SignInFailureAborts ==
    (calls # <<>> /\ ~tracker) =>
        /\ calls = <<Call("sign_in", 0, "")>>
        /\ store = store0
        /\ pc \in {"finally", "exited"}
        /\ ~completed

\* C9 witness: an execution ended by a failed sign-in
C9_Witness == pc = "exited" /\ calls = <<Call("sign_in", 0, "")>> /\ ~tracker

\* C10: once store_weather_data has issued its first insert for a date, the
\* ended execution has issued exactly one insert for every summarised
\* period of that date, whatever the outcome of each insert.
C10_EveryPeriodAttempted ==
    RunEnded =>
        \A d \in Dates :
            (\E p \in Periods : Count("insert", d, p) > 0) =>
                \A p \in Range(summarised[d]) : Count("insert", d, p) = 1

\* The provider was asked for date d in this execution.
Fetched(d) == Count("fetch", d, "") > 0

\* A payload without the 'forecast' key or with no forecast day.
Malformed(w) == w # NoPayload /\ (~w.forecast \/ w.days = 0)

\* A well-formed payload none of whose observations lies in hours 6..23.
EmptySummary(w) ==
    /\ w.forecast /\ w.days > 0
    /\ \A i \in 1..Len(w.hour) : w.hour[i].time < 6 \/ w.hour[i].time > 23

\* C11: when an execution has ended, every date whose fetched payload was
\* malformed or gave an empty summary (no observation in any period) was
\* marked failed (process_date returned False) and got no record, and the
\* loop went on to every other date of the range.
C11_EmptySummaryFails ==
    RunEnded =>
        \A d \in Dates :
            (Fetched(d) /\ (Malformed(fetched[d]) \/ EmptySummary(fetched[d]))) =>
                /\ d \in failed
                /\ store[d] = store0[d]
                /\ LoopDates \subseteq Range(DatesOf("process_date"))

(* ---------------------- the aggregator on its own ---------------------- *)

\* The hour of day of an observation's 'time' field.
Hours == 0..23

\* Condition labels of the observations handed to the aggregator.
Labels == {"Clear", "Rain"}

\* Payloads for the aggregator: the two malformed ones and every hour list
\* of at most MaxObs complete observations.
AggPayloads ==
    {Payload(FALSE, 0, <<>>), Payload(TRUE, 0, <<>>)}
    \cup {Payload(TRUE, 1, hs) :
            hs \in UNION {[1..n -> {Obs(h, TRUE, c) : h \in Hours, c \in Labels}] :
                            n \in 0..MaxObs}}

\* weather_conditions of line 190
Conditions(data) == [j \in 1..Len(data) |-> data[j].text]

\* weather_conditions.count(c)
Occurrences(conds, c) == Cardinality({j \in 1..Len(conds) : conds[j] = c})

\* The values max(set(weather_conditions), key=weather_conditions.count) can
\* return: max gives the first element of largest key in the iteration order
\* of the set, and the iteration order of a set of strings follows their
\* hashes, which differ from one interpreter process to the next.
MostCommon(conds) ==
    {c \in Range(conds) :
        \A e \in Range(conds) : Occurrences(conds, e) <= Occurrences(conds, c)}

PeriodIndex(p) == CHOOSE i \in 1..Len(PeriodOrder) : PeriodOrder[i] = p

\* the coordinator's variables, which an evaluation on its own leaves alone
mainVars == <<store, pc, run, now, tracker, last_stored_date, start_date,
              current_date, period_averages, completed, calls, failed,
              summarised, fetched, insertBad, store0, prev>>

InitAgg ==
    /\ store = StoreUpTo(0)
    /\ NotStarted
    /\ clk = NoClk
    /\ agg \in {[stage |-> "input", weather_data |-> w, periods |-> <<>>,
                 averages |-> <<>>] : w \in AggPayloads}

\* analyze_weather_periods(weather_data)
AnalyzeStep ==
    /\ agg.stage = "input"
    /\ LET r == AnalyzeWeatherPeriods(agg.weather_data)
       IN  agg' = IF r.status = "ok"
                  THEN [agg EXCEPT !.stage = "analysed", !.periods = r.value]
                  ELSE [agg EXCEPT !.stage = "failed"]
    /\ UNCHANGED <<mainVars, clk>>

\* calculate_period_averages(periods)
AverageStep ==
    /\ agg.stage = "analysed"
    /\ LET r == CalculatePeriodAverages(agg.periods)
           names == r.value
       IN  IF r.status # "ok"
           THEN agg' = [agg EXCEPT !.stage = "failed"]
           ELSE \E label \in [1..Len(names) -> Labels] :
                  /\ \A k \in 1..Len(names) :
                       label[k] \in MostCommon(
                           Conditions(agg.periods[PeriodIndex(names[k])]))
                  /\ agg' = [agg EXCEPT
                       !.stage = "done",
                       !.averages = [k \in 1..Len(names) |->
                                       [period |-> names[k],
                                        weather_condition |-> label[k]]]]
    /\ UNCHANGED <<mainVars, clk>>

NextAgg == AnalyzeStep \/ AverageStep

SpecAgg == InitAgg /\ [][NextAgg]_vars

\* C12: once analyze_weather_periods has returned, the morning list is the
\* observations of hours 6..11, the afternoon list those of hours 12..17 and
\* the evening list those of hours 18..23, each in input order; so an
\* observation of hours 0..5 is in no list and one of hours 6..23 in exactly
\* one.
C12_PeriodPartition ==
    agg.stage \in {"analysed", "done"} =>
        LET hs == agg.weather_data.hour
            Between(lo, hi) ==
                SelectSeq(hs, LAMBDA o : lo <= o.time /\ o.time <= hi)
        IN  /\ agg.periods = <<Between(6, 11), Between(12, 17), Between(18, 23)>>
            /\ Len(agg.periods[1]) + Len(agg.periods[2]) + Len(agg.periods[3])
                 = Cardinality({i \in 1..Len(hs) : hs[i].time >= 6})
            /\ \A h \in Hours :
                 Cardinality({p \in Periods : h \in PeriodHours(p)})
                   = IF h >= 6 THEN 1 ELSE 0

\* C12 witness: two afternoon observations given as 17:00 then 12:00 are
\* kept in that order
C12_Witness ==
    /\ agg.stage = "analysed"
    /\ agg.weather_data.hour = <<Obs(17, TRUE, "Rain"), Obs(12, TRUE, "Clear")>>
    /\ agg.periods = <<<<>>, agg.weather_data.hour, <<>>>>

\* C13: the label calculate_period_averages returns for a period occurs at
\* least as often among the period's observations as any other label, and
\* among the labels that occur that often it is the one whose first
\* occurrence comes first.
C13_LabelIsFirstMostCommon ==
    agg.stage = "done" =>
        \A k \in 1..Len(agg.averages) :
            LET conds == Conditions(agg.periods[PeriodIndex(agg.averages[k].period)])
                n(c) == Cardinality({j \in 1..Len(conds) : conds[j] = c})
                top(c) == \A j \in 1..Len(conds) : n(conds[j]) <= n(c)
                first == CHOOSE i \in 1..Len(conds) :
                            /\ top(conds[i])
                            /\ \A j \in 1..(i - 1) : ~top(conds[j])
            IN  /\ top(agg.averages[k].weather_condition)
                /\ agg.averages[k].weather_condition = conds[first]

\* C14: every step in which process_date returns straight after its
\* existence check (the check found a record for the date) starts from a
\* store that holds a record for the date, issues no fetch and no insert
\* (the check is the only call of the step), leaves the store unchanged and
\* returns True (the date is not marked failed and the loop moves on).
C14_SkipOnExistingRecord ==
    [][ (pc = "check" /\ pc' = "loop") =>
            /\ HasRows(store, current_date.date)
            /\ calls' = Append(calls, Call("check", current_date.date, ""))
            /\ ~Fetched(current_date.date)
            /\ store' = store
            /\ failed' = failed
            /\ current_date' = PlusDays(current_date, 1) ]_vars

\* C14 witness: an ended execution that skipped a date holding a record
C14_Witness ==
    /\ RunEnded
    /\ \E d \in Range(DatesOf("process_date")) :
         /\ HasRows(store0, d)
         /\ Count("check", d, "") = 1
         /\ ~Fetched(d)
         /\ \A p \in Periods : Count("insert", d, p) = 0
         /\ store[d] = store0[d]
         /\ d \notin failed

\* A well-formed payload with an observation of hours 6..23 that lacks one
\* of the fields calculate_period_averages reads.
MissingField(w) ==
    /\ w.forecast /\ w.days > 0
    /\ \E i \in 1..Len(w.hour) :
         w.hour[i].time >= 6 /\ w.hour[i].time <= 23 /\ ~w.hour[i].ok

\* C15: a date whose fetch failed, or whose payload has an observation in a
\* period that lacks a required field, is marked failed (process_date
\* returned False), sees no insert issued for any period and keeps the rows
\* it had.
C15_WholeDayFailure ==
    \A d \in Dates :
        (Fetched(d) /\ (fetched[d] = NoPayload \/ MissingField(fetched[d]))) =>
            /\ d \in failed
            /\ \A p \in Periods : Count("insert", d, p) = 0
            /\ store[d] = store0[d]

\* C15 witness: an ended execution that fetched, for a date without rows, a
\* payload with a complete morning observation and an incomplete afternoon
\* one
C15_Witness ==
    /\ RunEnded
    /\ \E d \in failed :
         /\ Fetched(d)
         /\ MissingField(fetched[d])
         /\ \E i \in 1..Len(fetched[d].hour) :
              fetched[d].hour[i].ok /\ fetched[d].hour[i].time \in 6..11
         /\ ~HasRows(store, d)

\* Date d holds a record for at least one period and fewer than three.
PartiallyStored(st, d) ==
    Cardinality({p \in Periods : st[d][p] > 0}) \in 1..2

\* C16: a date that was partially stored when an execution started is, if
\* the execution processes it at all, skipped by the existence check: no
\* insert is issued for it and its records stay as they were.
C16_PartialStaysIncomplete ==
    \A d \in Dates :
        PartiallyStored(store0, d) =>
            /\ \A p \in Periods : Count("insert", d, p) = 0
            /\ store[d] = store0[d]

(* ----------------------- the loop test on its own ---------------------- *)

\* Every wall clock reading at which main can start on day MaxDay, with
\* every last stored date before yesterday.
ClockInputs ==
    {[stage |-> "input",
      now |-> DateTime(MaxDay, t, o),
      last |-> DateTime(D, 0, LMTOffset),
      yesterday |-> NoDate,
      current |-> NoDate,
      admitted |-> {}] :
        t \in 0..(MinutesPerDay - 1), o \in Offsets, D \in 1..(MaxDay - 2)}

InitClock ==
    /\ store = StoreUpTo(0)
    /\ NotStarted
    /\ agg = NoAgg
    /\ clk \in ClockInputs

\* main, lines 330-347: yesterday, and the start of the range after a cursor
ClockStart ==
    /\ clk.stage = "input"
    /\ clk' = [clk EXCEPT !.stage = "loop",
                          !.yesterday = PlusDays(clk.now, -1),
                          !.current = PlusDays(clk.last, 1)]
    /\ UNCHANGED <<mainVars, agg>>

\* main, lines 348-356: the loop test and the step to the next date
ClockLoop ==
    /\ clk.stage = "loop"
    /\ clk' = IF Leq(clk.current, clk.yesterday)
              THEN [clk EXCEPT !.admitted = @ \cup {clk.current.date},
                               !.current = PlusDays(clk.current, 1)]
              ELSE [clk EXCEPT !.stage = "done"]
    /\ UNCHANGED <<mainVars, agg>>

NextClock == ClockStart \/ ClockLoop

SpecClock == InitClock /\ [][NextClock]_vars

\* C17: when the loop of main has ended after a cursor before yesterday, it
\* has admitted the civil date before the day main started on and has not
\* admitted the day main started on, whatever the minute of the day and the
\* utc offset at the start.
C17_RangeEndsYesterday ==
    clk.stage = "done" =>
        /\ (clk.now.date - 1) \in clk.admitted
        /\ clk.now.date \notin clk.admitted

\* The periods in whose hours payload w has at least one observation.
PeriodsObserved(w) ==
    {p \in Periods :
        \E i \in 1..Len(w.hour) :
            \/ p = "morning" /\ w.hour[i].time \in 6..11
            \/ p = "afternoon" /\ w.hour[i].time \in 12..17
            \/ p = "evening" /\ w.hour[i].time \in 18..23}

\* The periods for which this execution issued an insert for date d.
PeriodsInserted(d) == {p \in Periods : Count("insert", d, p) > 0}

\* C18: when an execution has ended, every date it computed summaries for
\* has a summary for exactly the periods with an observation in the fetched
\* payload, and if store_weather_data got to insert for the date, it issued
\* an insert for exactly the summarised periods: none for an empty period
\* and one for every non-empty period.
C18_EmptyPeriodsOmitted ==
    RunEnded =>
        \A d \in Dates :
            (Fetched(d) /\ d \notin failed) =>
                /\ Range(summarised[d]) = PeriodsObserved(fetched[d])
                /\ PeriodsInserted(d) # {} =>
                       PeriodsInserted(d) = PeriodsObserved(fetched[d])

\* C19: when an execution has ended, the cursor it read is the latest date
\* stored at its start or None, and when it is None (the store was empty or
\* the query raised) the execution completed and called process_date for
\* yesterday and for no other date, whatever the store held.
C19_FailedCursorAsEmptyStore ==
    RunEnded =>
        /\ \/ last_stored_date = NoDate
           \/ /\ StoredDates(store0) # {}
              /\ last_stored_date = DateTime(MaxStoredDate(store0), 0, LMTOffset)
        /\ last_stored_date = NoDate =>
              /\ completed
              /\ DatesOf("process_date") = <<now.date - 1>>

\* C19 witness: an ended execution whose cursor query raised (the store held
\* rows, the cursor is None) while an earlier date was missing, and which
\* processed yesterday alone
C19_Witness ==
    /\ RunEnded
    /\ StoredDates(store0) # {}
    /\ last_stored_date = NoDate
    /\ \E d \in Dates : d < now.date - 1 /\ ~HasRows(store0, d)
    /\ completed
    /\ DatesOf("process_date") = <<now.date - 1>>

\* C20: when an execution has ended, every date for which process_date
\* returned True (it was processed and is not marked failed) has at least
\* one record in the store.
C20_SuccessMeansStored ==
    RunEnded =>
        \A d \in Range(DatesOf("process_date")) :
            d \notin failed => HasRows(store, d)

====
